---- MODULE Spec2Model ----
(***************************************************************************)
(* Model of the two scripts of the repository:                             *)
(*   run/sweep.py            config generation + GPU-pool dispatch loop    *)
(*   examples/node2vec_link.py   best-checkpoint tracking of the epochs    *)
(* Python values are written as the tokens str() gives them ("64",         *)
(* "True", "None"); a dotted key such as 'model.channels' is a string and  *)
(* its split('.') a sequence of strings.                                   *)
(***************************************************************************)
EXTENDS Integers, Sequences, FiniteSets, TLC

\* ------------------------------------------------------------------ bounds
\* --gpu-ids holds 1..MaxGpus ids (repeats allowed)
MaxGpus == 2
\* the grids swept have at most MaxCombos combinations
MaxCombos == 4
\* --epochs is drawn from 0..MaxEpochs
MaxEpochs == 3
\* a validation link_prediction_map value is one of 0..MaxMetric (a scaled MAP)
MaxMetric == 3

\* ------------------------------------------------------- sweep.py: constants
\* sweep.py:25-40, the dict as the source has it, in insertion order
HyperparameterTable ==
    << [param |-> "model.channels",          values |-> <<"64", "128">>],
       [param |-> "model.use_self_join",     values |-> <<"True">>],
       [param |-> "optim.base_lr",           values |-> <<"0.01", "0.001">>],
       [param |-> "selfjoin.sim_score_type", values |-> <<"None", "cos", "L2", "attention">>] >>

\* param.split('.') for the keys of hyperparameters (sweep.py:86)
split(param) ==
    CASE param = "model.channels"          -> <<"model", "channels">>
      [] param = "model.use_self_join"     -> <<"model", "use_self_join">>
      [] param = "optim.base_lr"           -> <<"optim", "base_lr">>
      [] param = "selfjoin.sim_score_type" -> <<"selfjoin", "sim_score_type">>

\* itertools.product(*seqs): the last sequence varies fastest
RECURSIVE product(_)
product(seqs) ==
    IF seqs = <<>> THEN << <<>> >>
    ELSE LET rest == product(Tail(seqs))
             RECURSIVE from(_)
             from(i) == IF i > Len(Head(seqs)) THEN <<>>
                        ELSE [j \in 1..Len(rest) |-> <<Head(seqs)[i]>> \o rest[j]] \o from(i + 1)
         IN  from(1)

\* hyperparameters.values() (sweep.py:58)
values_of(hp) == [i \in 1..Len(hp) |-> hp[i].values]

\* sweep.py:47-52 and 48: fixed strings once the arguments are parsed
output_folder == "results/base_sweep"
original_config_name == "base"

\* '_'.join(f'{param}_{value}' ...) then os.path.join(...) + '_run.yaml': the
\* name is the sequence of the joined pieces
RECURSIVE joinPairs(_, _, _)
joinPairs(i, combo, hp) ==
    IF i > Len(combo) THEN <<>>
    ELSE <<hp[i].param, combo[i]>> \o joinPairs(i + 1, combo, hp)

\* sweep.py:119-124
config_name(combo, hp) ==
    <<output_folder, original_config_name>> \o joinPairs(1, combo, hp) \o <<"_run.yaml">>

\* ------------------------------------------------- sweep.py: dictionaries
\* A YAML document is a map from leaf paths to scalars.  Loaded, it is a heap
\* of dict objects: an object id is a sequence, a dict maps a key to a scalar
\* or to a reference to the nested dict.
Template == <<"template">>
NewConfig == <<"new_config">>

Scalar(v) == [ref |-> FALSE, id |-> <<>>, v |-> v]
Ref(id)   == [ref |-> TRUE,  id |-> id,   v |-> ""]

IsPrefix(p, q) == Len(p) <= Len(q) /\ SubSeq(q, 1, Len(p)) = p

\* yaml.safe_load: one dict object per proper prefix of a leaf path, the root
\* dict being Template
safe_load(doc) ==
    LET prefixes == UNION { {SubSeq(p, 1, n) : n \in 0..(Len(p) - 1)} : p \in DOMAIN doc }
        keys(q)  == {p[Len(q) + 1] : p \in {p \in DOMAIN doc : IsPrefix(q, p) /\ Len(p) > Len(q)}}
        dict(q)  == [k \in keys(q) |->
                        IF (q \o <<k>>) \in DOMAIN doc THEN Scalar(doc[q \o <<k>>])
                        ELSE Ref(Template \o q \o <<k>>)]
    IN  [id \in {Template \o q : q \in prefixes} |-> dict(Tail(id))]

\* yaml.dump(d): the leaf paths under dict d with their scalars
RECURSIVE leaves(_, _)
leaves(h, d) ==
    UNION { IF h[d][k].ref THEN {<<k>> \o p : p \in leaves(h, h[d][k].id)} ELSE {<<k>>}
            : k \in DOMAIN h[d] }

RECURSIVE lookup(_, _, _)
lookup(h, d, p) ==
    IF Len(p) = 1 THEN h[d][p[1]].v ELSE lookup(h, h[d][p[1]].id, Tail(p))

yaml_dump(h, d) == [p \in leaves(h, d) |-> lookup(h, d, p)]

RECURSIVE update_nested_dict(_, _, _, _)

\* a variant that assigns at the first key instead of descending
update_nested_dict_top(h, d, key_list, value) ==
    IF key_list[1] \in DOMAIN h[d]
    THEN [err |-> "none", heap |-> [h EXCEPT ![d][key_list[1]] = Scalar(value)]]
    ELSE [err |-> "KeyError", heap |-> h]

\* a variant that creates a missing leaf key instead of raising
update_nested_dict_create(h, d, key_list, value) ==
    IF Len(key_list) = 1 THEN
        [err |-> "none", heap |-> [h EXCEPT ![d] = (key_list[1] :> Scalar(value)) @@ h[d]]]
    ELSE IF key_list[1] \in DOMAIN h[d] THEN
        IF h[d][key_list[1]].ref
        THEN update_nested_dict(h, h[d][key_list[1]].id, Tail(key_list), value)
        ELSE [err |-> "TypeError", heap |-> h]
    ELSE [err |-> "KeyError", heap |-> h]

\* sweep.py:107-116.  The result is the heap after the call and the exception
\* raised, if any ("none": the call returned).
update_nested_dict(h, d, key_list, value) ==
    IF Len(key_list) = 1 THEN
        IF key_list[1] \in DOMAIN h[d]
        THEN [err |-> "none", heap |-> [h EXCEPT ![d][key_list[1]] = Scalar(value)]]
        ELSE [err |-> "KeyError", heap |-> h]
    ELSE IF key_list[1] \in DOMAIN h[d] THEN
        IF h[d][key_list[1]].ref
        THEN update_nested_dict(h, h[d][key_list[1]].id, Tail(key_list), value)
        ELSE [err |-> "TypeError", heap |-> h]   \* `in` on a scalar that is no container
    ELSE [err |-> "KeyError", heap |-> h]

\* dict.copy() (sweep.py:83): a new top-level dict holding the same values, so
\* the same references to the nested dicts
shallow_copy(h, d) == h[d]

\* ------------------------------------------------------- sweep.py: inputs
BaseDoc ==
    (<<"model", "channels">> :> "64") @@ (<<"model", "use_self_join">> :> "False") @@
    (<<"model", "conv">> :> "sage") @@ (<<"optim", "base_lr">> :> "0.1") @@
    (<<"optim", "sched", "step">> :> "5") @@ (<<"selfjoin", "sim_score_type">> :> "cos") @@
    (<<"seed">> :> "1")

Without(doc, paths) == [p \in (DOMAIN doc) \ paths |-> doc[p]]

\* The config files tried: a complete one (whose model.channels already holds
\* a swept value), and ones lacking a swept leaf or a whole swept section
Templates ==
    { BaseDoc,
      Without(BaseDoc, {<<"optim", "base_lr">>}),
      Without(BaseDoc, {<<"selfjoin", "sim_score_type">>}),
      Without(BaseDoc, {<<"model", "channels">>}) }

\* args.gpu_ids.split(',') mapped through int (sweep.py:43, 65).  The launcher
\* only passes ids along, so the lists are taken up to a renaming of the ids:
\* the first id is 0 and each later one is an earlier id or the next new one
GpuIdLists ==
    { ids \in UNION { [1..n -> 0..(MaxGpus - 1)] : n \in 1..MaxGpus } :
        \A k \in 1..Len(ids) :
            ids[k] <= Cardinality({ids[j] : j \in 1..(k - 1)}) }

\* The dict of sweep.py:25-40 is edited in place by its user (see its commented
\* lines).  The grids swept keep every key of the source and a non-empty prefix
\* of each value list, as long as possible within MaxCombos combinations.
Prefixes(lens) ==
    [i \in 1..Len(HyperparameterTable) |->
        [param  |-> HyperparameterTable[i].param,
         values |-> SubSeq(HyperparameterTable[i].values, 1, lens[i])]]

RECURSIVE Prod(_, _)
Prod(lens, i) == IF i > Len(lens) THEN 1 ELSE lens[i] * Prod(lens, i + 1)

GridLens ==
    LET n   == Len(HyperparameterTable)
        all == { l \in [1..n -> 1..MaxCombos] :
                    /\ \A i \in 1..n : l[i] <= Len(HyperparameterTable[i].values)
                    /\ Prod(l, 1) <= MaxCombos }
    IN  { l \in all : ~\E m \in all : m # l /\ \A i \in 1..n : l[i] <= m[i] }

Grids == { Prefixes(l) : l \in GridLens }

\* ------------------------------------------------------------------ state
VARIABLES
    hyperparameters,  \* the dict of that name
    combinations,     \* the list of that name
    template_file,    \* the document in original_config_file
    heap,             \* the dict objects: template, new_config and the nested dicts
    files,            \* the YAML files written: config file name -> document
    gpu_ids,          \* the ids of --gpu-ids
    resource_pool,    \* the Queue, oldest first
    pc,               \* main's position
    exc,              \* the exception that ended main ("none": none)
    ci,               \* generation loop: index of combo in combinations (from 1)
    pi,               \* generation loop: index of param in hyperparameters (from 1)
    exp_id,           \* dispatch loop: enumerate index (from 0)
    new_config_file,  \* the local of that name
    gpu,              \* the local of that name (-1: not yet bound)
    procs,            \* the Process objects in start order
    epochs,           \* node2vec_link.py: args.epochs
    epoch,            \* node2vec_link.py: the loop variable (0 before the loop)
    tpc,              \* node2vec_link.py: position
    model_params,     \* node2vec_link.py: the model's parameters (their version)
    best_val_metric,
    state_dict,       \* <<>> is None, <<v>> a copy of parameters v
    writer            \* the val/link_prediction_map scalars logged, by epoch

\* set once, before the loops, and only read after
args == <<hyperparameters, combinations, template_file, gpu_ids>>
sweepVars == <<hyperparameters, combinations, template_file, heap, files, gpu_ids, resource_pool, pc, exc,
               ci, pi, exp_id, new_config_file, gpu, procs>>
trainVars == <<epochs, epoch, tpc, model_params, best_val_metric, state_dict, writer>>
vars == <<sweepVars, trainVars>>

\* sweep.py:12-66: arguments parsed, template loaded, pool seeded
SweepStart(hp, doc, ids) ==
    /\ hyperparameters = hp
    /\ combinations = product(values_of(hp))
    /\ template_file = doc
    /\ heap = safe_load(doc)
    /\ files = <<>>
    /\ gpu_ids = ids
    /\ resource_pool = ids
    /\ pc = "copy"
    /\ exc = "none"
    /\ ci = 1
    /\ pi = 1
    /\ exp_id = 0
    /\ new_config_file = <<>>
    /\ gpu = -1
    /\ procs = <<>>

\* node2vec_link.py:15-106
TrainStart(n) ==
    /\ epochs = n
    /\ epoch = 0
    /\ tpc = "train"
    /\ model_params = 0
    /\ best_val_metric = 0
    /\ state_dict = <<>>
    /\ writer = <<>>

Init ==
    /\ \E hp \in Grids, doc \in Templates, ids \in GpuIdLists : SweepStart(hp, doc, ids)
    /\ TrainStart(0)

\* ------------------------------------------- sweep.py: config generation
\* sweep.py:81-83
Copy ==
    /\ pc = "copy"
    /\ heap' = (NewConfig :> shallow_copy(heap, Template)) @@ heap
    /\ pi' = 1
    /\ pc' = "update"
    /\ UNCHANGED <<args, files, resource_pool, exc, ci, exp_id, new_config_file, gpu,
                   procs, trainVars>>

\* sweep.py:85-87, one iteration; an exception leaves main
Update ==
    /\ pc = "update"
    /\ LET r == update_nested_dict(heap, NewConfig, split(hyperparameters[pi].param),
                                   combinations[ci][pi])
       IN  /\ heap' = r.heap
           /\ exc' = r.err
           /\ IF r.err # "none" THEN pc' = "aborted" /\ pi' = pi
              ELSE /\ pi' = pi + 1
                   /\ pc' = IF pi = Len(hyperparameters) THEN "write" ELSE "update"
    /\ UNCHANGED <<args, files, resource_pool, ci, exp_id, new_config_file, gpu, procs,
                   trainVars>>

\* sweep.py:90-93, then the next combo or the dispatch loop
Write ==
    /\ pc = "write"
    /\ new_config_file' = config_name(combinations[ci], hyperparameters)
    /\ files' = (new_config_file' :> yaml_dump(heap, NewConfig)) @@ files
    /\ IF ci < Len(combinations) THEN ci' = ci + 1 /\ pc' = "copy"
       ELSE ci' = ci /\ pc' = "get"
    /\ UNCHANGED <<args, heap, resource_pool, exc, pi, exp_id, gpu, procs, trainVars>>

\* ---------------------------------------------- sweep.py: dispatch loop
\* a variant that reads the oldest id and leaves it in the queue
Get_Peek ==
    /\ pc = "get"
    /\ resource_pool # <<>>
    /\ new_config_file' = config_name(combinations[exp_id + 1], hyperparameters)
    /\ gpu' = Head(resource_pool)
    /\ resource_pool' = resource_pool
    /\ pc' = "start"
    /\ UNCHANGED <<args, heap, files, exc, ci, pi, exp_id, procs, trainVars>>

\* a variant that does not wait: on an empty queue it goes on with the first id
Get_NoBlock ==
    /\ pc = "get"
    /\ new_config_file' = config_name(combinations[exp_id + 1], hyperparameters)
    /\ IF resource_pool = <<>>
       THEN gpu' = gpu_ids[1] /\ resource_pool' = resource_pool
       ELSE gpu' = Head(resource_pool) /\ resource_pool' = Tail(resource_pool)
    /\ pc' = "start"
    /\ UNCHANGED <<args, heap, files, exc, ci, pi, exp_id, procs, trainVars>>

\* sweep.py:97-98: resource_pool.get() blocks while the queue is empty
Get ==
    /\ pc = "get"
    /\ resource_pool # <<>>
    /\ new_config_file' = config_name(combinations[exp_id + 1], hyperparameters)
    /\ gpu' = Head(resource_pool)
    /\ resource_pool' = Tail(resource_pool)
    /\ pc' = "start"
    /\ UNCHANGED <<args, heap, files, exc, ci, pi, exp_id, procs, trainVars>>

\* sweep.py:99-100: the closure binds new_config_file, gpu and exp_id
Start ==
    /\ pc = "start"
    /\ procs' = Append(procs, [exp_id |-> exp_id, cfg |-> new_config_file, gpu |-> gpu,
                               st |-> "started", hangs |-> FALSE, status |-> 0])
    /\ pc' = "sleep"
    /\ UNCHANGED <<args, heap, files, resource_pool, exc, ci, pi, exp_id,
                   new_config_file, gpu, trainVars>>

\* a variant that steps over every other item
Sleep_Skip ==
    /\ pc = "sleep"
    /\ exp_id' = exp_id + 2
    /\ pc' = IF exp_id + 2 < Len(combinations) THEN "get" ELSE "done"
    /\ UNCHANGED <<args, heap, files, resource_pool, exc, ci, pi, new_config_file, gpu,
                   procs, trainVars>>

\* a variant that launches the item again when its command has already failed
Sleep_RetryFailed ==
    /\ pc = "sleep"
    /\ IF procs[Len(procs)].st = "exited" /\ procs[Len(procs)].status = 1
       THEN exp_id' = exp_id /\ pc' = "get"
       ELSE /\ exp_id' = exp_id + 1
            /\ pc' = IF exp_id + 1 < Len(combinations) THEN "get" ELSE "done"
    /\ UNCHANGED <<args, heap, files, resource_pool, exc, ci, pi, new_config_file, gpu,
                   procs, trainVars>>

\* sweep.py:103-104, then the next enumerate item or the end of main
Sleep ==
    /\ pc = "sleep"
    /\ exp_id' = exp_id + 1
    /\ pc' = IF exp_id + 1 < Len(combinations) THEN "get" ELSE "done"
    /\ UNCHANGED <<args, heap, files, resource_pool, exc, ci, pi, new_config_file, gpu,
                   procs, trainVars>>

\* sweep.py:70-74: print Started, launch the command; whether the command ever
\* ends is the command's own business
WorkerRun(i) ==
    /\ procs[i].st = "started"
    /\ \E h \in BOOLEAN : procs' = [procs EXCEPT ![i].st = "running", ![i].hangs = h]
    /\ UNCHANGED <<args, heap, files, resource_pool, pc, exc, ci, pi, exp_id,
                   new_config_file, gpu, trainVars>>

\* sweep.py:74: subprocess.run returns, with the shell's exit status (no check=True)
CommandExit(i) ==
    /\ procs[i].st = "running"
    /\ ~procs[i].hangs
    /\ \E s \in {0, 1} : procs' = [procs EXCEPT ![i].st = "exited", ![i].status = s]
    /\ UNCHANGED <<args, heap, files, resource_pool, pc, exc, ci, pi, exp_id,
                   new_config_file, gpu, trainVars>>

\* a variant that puts the id back twice
WorkerFinish_PutTwice(i) ==
    /\ procs[i].st = "exited"
    /\ resource_pool' = resource_pool \o <<procs[i].gpu, procs[i].gpu>>
    /\ procs' = [procs EXCEPT ![i].st = "finished"]
    /\ UNCHANGED <<args, heap, files, pc, exc, ci, pi, exp_id, new_config_file, gpu,
                   trainVars>>

\* a variant that never puts the id back
WorkerFinish_NoPut(i) ==
    /\ procs[i].st = "exited"
    /\ resource_pool' = resource_pool
    /\ procs' = [procs EXCEPT ![i].st = "finished"]
    /\ UNCHANGED <<args, heap, files, pc, exc, ci, pi, exp_id, new_config_file, gpu,
                   trainVars>>

\* a variant that puts back the first id of --gpu-ids, not its own
WorkerFinish_WrongGpu(i) ==
    /\ procs[i].st = "exited"
    /\ resource_pool' = Append(resource_pool, gpu_ids[1])
    /\ procs' = [procs EXCEPT ![i].st = "finished"]
    /\ UNCHANGED <<args, heap, files, pc, exc, ci, pi, exp_id, new_config_file, gpu,
                   trainVars>>

\* sweep.py:75-76: print Finished, put the gpu back; the process ends (status
\* stays in the record as the status its command ended with)
WorkerFinish(i) ==
    /\ procs[i].st = "exited"
    /\ resource_pool' = Append(resource_pool, procs[i].gpu)
    /\ procs' = [procs EXCEPT ![i].st = "finished"]
    /\ UNCHANGED <<args, heap, files, pc, exc, ci, pi, exp_id, new_config_file, gpu,
                   trainVars>>

Main == Copy \/ Update \/ Write \/ Get \/ Start \/ Sleep

Worker(i) == WorkerRun(i) \/ CommandExit(i) \/ WorkerFinish(i)

Next ==
    \/ Copy
    \/ Update
    \/ Write
    \/ Get
    \/ Start
    \/ Sleep
    \/ \E i \in 1..Len(procs) : WorkerRun(i)
    \/ \E i \in 1..Len(procs) : CommandExit(i)
    \/ \E i \in 1..Len(procs) : WorkerFinish(i)

Spec == Init /\ [][Next]_vars

\* Processes are scheduled fairly by the operating system: main keeps running
\* when it can, and so does every worker process
FairSpec ==
    /\ Init
    /\ [][Next]_vars
    /\ WF_vars(Main)
    /\ \A i \in 1..MaxCombos : WF_vars(i <= Len(procs) /\ Worker(i))

\* ------------------------------------------------- node2vec_link.py
\* a variant in which a tie replaces the snapshot
Improves_OrEqual(metric, best) == metric >= best

\* node2vec_link.py:116
Improves(metric, best) == metric > best

\* node2vec_link.py:108-122, one iteration: train() moves the parameters to a
\* new version, the validation metric is whatever task.evaluate returns, and
\* copy.deepcopy keeps the parameters of this very epoch
Epoch ==
    /\ tpc = "train"
    /\ epoch < epochs
    /\ epoch' = epoch + 1
    /\ model_params' = epoch + 1
    /\ \E metric \in 0..MaxMetric :
         /\ writer' = Append(writer, metric)
         /\ IF Improves(metric, best_val_metric)
            THEN best_val_metric' = metric /\ state_dict' = <<model_params'>>
            ELSE UNCHANGED <<best_val_metric, state_dict>>
    /\ UNCHANGED <<sweepVars, epochs, tpc>>

\* node2vec_link.py:124: load_state_dict(None) raises
LoadBest ==
    /\ tpc = "train"
    /\ epoch = epochs
    /\ IF state_dict = <<>> THEN tpc' = "crashed" /\ UNCHANGED model_params
       ELSE tpc' = "loaded" /\ model_params' = state_dict[1]
    /\ UNCHANGED <<sweepVars, epochs, epoch, best_val_metric, state_dict, writer>>

InitTrain ==
    /\ SweepStart(Prefixes([i \in 1..Len(HyperparameterTable) |-> 1]), BaseDoc, <<0>>)
    /\ \E n \in 0..MaxEpochs : TrainStart(n)

NextTrain ==
    \/ Epoch
    \/ LoadBest

SpecTrain == InitTrain /\ [][NextTrain]_vars

\* ------------------------------------------------------------ properties
Procs == 1..Len(procs)
Unfinished == {i \in Procs : procs[i].st # "finished"}
Finished == {i \in Procs : procs[i].st = "finished"}
Count(seq, g) == Cardinality({k \in 1..Len(seq) : seq[k] = g})
Distinct(seq) == \A j, k \in 1..Len(seq) : j # k => seq[j] # seq[k]
Dispatching == pc \in {"get", "start", "sleep", "done"}

\* C1: the worker processes started that have not yet put their GPU id back
\* are never more than the GPU ids of --gpu-ids.
C1_BoundedWorkers == Cardinality(Unfinished) <= Len(gpu_ids)

\* every slot of a two-GPU pool is taken while an older worker still runs and
\* a younger one has already finished
C1_Witness ==
    /\ Len(gpu_ids) = 2
    /\ Cardinality(Unfinished) = 2
    /\ \E i, j \in Procs : i < j /\ i \in Unfinished /\ j \in Finished

\* the index in combinations of the value at position p of hyperparameter i:
\* in itertools.product order the last hyperparameter varies fastest
RECURSIVE Stride(_)
Stride(i) ==
    IF i = Len(hyperparameters) THEN 1
    ELSE Len(hyperparameters[i + 1].values) * Stride(i + 1)

ProductOrder ==
    /\ Len(combinations) = Stride(1) * Len(hyperparameters[1].values)
    /\ \A k \in 1..Len(combinations) :
         /\ Len(combinations[k]) = Len(hyperparameters)
         /\ \A i \in 1..Len(hyperparameters) :
              combinations[k][i] =
                hyperparameters[i].values[
                    (((k - 1) \div Stride(i)) % Len(hyperparameters[i].values)) + 1]

\* the name sweep.py gives the config file of combinations[k]: folder, base
\* name, then each key with this combination's value, in key order
NameOf(k) ==
    <<output_folder, original_config_name>>
    \o [n \in 1..(2 * Len(hyperparameters)) |->
          IF n % 2 = 1 THEN hyperparameters[(n + 1) \div 2].param
          ELSE combinations[k][n \div 2]]
    \o <<"_run.yaml">>

\* C2: the dispatch loop starts exactly one worker per combination: the k-th
\* worker started has exp_id k-1 and the config file named for the k-th
\* combination in itertools.product order, and once the loop has ended every
\* combination has been started, none twice, none skipped.
C2_OneWorkerPerCombo ==
    /\ ProductOrder
    /\ Len(procs) <= Len(combinations)
    /\ \A i \in Procs : procs[i].exp_id = i - 1 /\ procs[i].cfg = NameOf(i)
    /\ \A i, j \in Procs : i # j => procs[i].cfg # procs[j].cfg
    /\ pc = "done" => Len(procs) = Len(combinations)

C2_Witness ==
    /\ pc = "done"
    /\ Len(procs) = 4
    /\ Len(hyperparameters[1].values) = 2
    /\ Len(hyperparameters[3].values) = 2

\* the places a GPU id can be
HeldByDispatcher(g) == IF pc = "start" /\ gpu = g THEN 1 ELSE 0
HeldByWorkers(g) == Cardinality({i \in Unfinished : procs[i].gpu = g})

C3_Conserved ==
    \A g \in 0..MaxGpus :
        Count(resource_pool, g) + HeldByDispatcher(g) + HeldByWorkers(g) = Count(gpu_ids, g)

C3_Step ==
    /\ \A i \in Procs :
         /\ procs[i].st = "finished" => procs'[i] = procs[i]
         /\ (procs[i].st # "finished" /\ procs'[i].st = "finished") =>
              /\ procs[i].st = "exited"
              /\ resource_pool' = Append(resource_pool, procs[i].gpu)
         /\ procs'[i].gpu = procs[i].gpu
    /\ Len(resource_pool') > Len(resource_pool) =>
         \E i \in Procs : procs[i].st = "exited" /\ procs'[i].st = "finished"

\* C3: GPU ids are conserved: each id seeded into resource_pool is in exactly
\* one place (the pool, the dispatcher between get() and start(), or one
\* unfinished worker), and a worker puts back the id it was given, once, and
\* only after its command has ended.
C3_Conservation == []C3_Conserved /\ [][C3_Step]_vars

\* the dispatcher holds one id, a worker another, and a third worker has
\* already given its id back
C3_Witness ==
    /\ pc = "start"
    /\ Unfinished # {}
    /\ Finished # {}
    /\ Len(gpu_ids) = 2

C4_Step ==
    /\ (pc # "start" /\ pc' = "start") =>
          /\ resource_pool # <<>>
          /\ gpu' = Head(resource_pool)
          /\ resource_pool' = Tail(resource_pool)
    /\ Len(procs') > Len(procs) =>
          /\ pc = "start"
          /\ Len(procs') = Len(procs) + 1
          /\ procs'[Len(procs')].gpu = gpu
    /\ (pc = "get" /\ resource_pool = <<>>) =>
          /\ pc' = pc
          /\ exp_id' = exp_id
          /\ procs' # procs => \E i \in Procs : procs'[i].st # procs[i].st

C4_ReturnedId ==
    \A i \in Procs :
        i > Len(gpu_ids) => \E j \in 1..(i - 1) : procs[j].st = "finished" /\ procs[j].gpu = procs[i].gpu

\* C4: block-until-available: a worker is started only on an id the dispatcher
\* has just removed from resource_pool; while the pool is empty the dispatcher
\* stays at get() and starts nothing, only workers move; and a worker started
\* after the seeded ids ran out runs on an id a finished worker returned.
C4_BlockUntilAvailable == [][C4_Step]_vars /\ []C4_ReturnedId

\* blocked again after a worker was started on a returned id
C4_Witness ==
    /\ pc = "get"
    /\ resource_pool = <<>>
    /\ Len(procs) > Len(gpu_ids)

SomeCommandHangs == \E i \in Procs : procs[i].st = "running" /\ procs[i].hangs
AllLaunchedAndReturned ==
    /\ pc = "done"
    /\ Len(procs) = Len(combinations)
    /\ Unfinished = {}
    /\ \A g \in 0..MaxGpus : Count(resource_pool, g) = Count(gpu_ids, g)
BlockedAtGet == pc = "get" /\ resource_pool = <<>>
AllHeldByHangingCommands ==
    Cardinality({i \in Procs : procs[i].st = "running" /\ procs[i].hangs}) = Len(gpu_ids)

\* C5: under fair scheduling, once the dispatch loop is entered: unless some
\* training command never terminates, every combination is launched, the loop
\* ends and all GPU ids are back in resource_pool; and the dispatcher stays
\* blocked at get() for ever only if every GPU id is held by a worker whose
\* command never terminates.
C5_Progress ==
    /\ (pc = "get" /\ exp_id = 0) ~> (AllLaunchedAndReturned \/ SomeCommandHangs)
    /\ <>[]BlockedAtGet => <>[]AllHeldByHangingCommands

\* a sweep with more combinations than GPUs has run to its end
C5_Witness ==
    /\ AllLaunchedAndReturned
    /\ Len(gpu_ids) < Len(combinations)

C6_Step ==
    /\ \A i \in Procs :
         (procs[i].st = "exited" /\ procs'[i] # procs[i]) =>
            /\ procs'[i] = [procs[i] EXCEPT !.st = "finished"]
            /\ resource_pool' = Append(resource_pool, procs[i].gpu)
            /\ Len(procs') = Len(procs)
            /\ UNCHANGED <<pc, exp_id, gpu, new_config_file>>
    /\ Len(procs') > Len(procs) =>
         /\ procs'[Len(procs')].exp_id = Len(procs)
         /\ procs'[Len(procs')].cfg = NameOf(Len(procs) + 1)
         /\ procs'[Len(procs')].gpu = gpu

\* C6: no retry, no failure recovery: a worker whose command ended with a
\* failure status does what one whose command succeeded does (it finishes and
\* returns its GPU id), no configuration is launched a second time, and what
\* the dispatcher launches next depends only on its position in the list.
C6_NoRetry ==
    /\ [][C6_Step]_vars
    /\ [](\A i, j \in Procs : i # j => procs[i].exp_id # procs[j].exp_id)

\* a worker whose command failed has finished and a later configuration runs
C6_Witness ==
    \E i, j \in Procs :
        /\ i < j
        /\ procs[i].st = "finished"
        /\ procs[i].status = 1
        /\ procs[j].exp_id = procs[i].exp_id + 1

\* C7: with pairwise distinct ids in --gpu-ids, no two workers whose commands
\* run at the same time were given the same GPU id.
C7_MutualExclusion ==
    Distinct(gpu_ids) =>
        \A i, j \in Procs :
            (i # j /\ procs[i].st = "running" /\ procs[j].st = "running")
                => procs[i].gpu # procs[j].gpu

\* two commands run at once, one of them on an id that was returned
C7_Witness ==
    /\ Distinct(gpu_ids)
    /\ \E i, j \in Procs :
         /\ i < j
         /\ j > Len(gpu_ids)
         /\ procs[i].st = "running"
         /\ procs[j].st = "running"

SweptPaths == {split(hyperparameters[i].param) : i \in 1..Len(hyperparameters)}

\* what the file of combinations[k] must hold: the combination's value at
\* every swept path, the template file's value at every other path
Expected(k) ==
    [p \in DOMAIN template_file |->
        IF p \in SweptPaths
        THEN combinations[k][CHOOSE i \in 1..Len(hyperparameters) :
                                 split(hyperparameters[i].param) = p]
        ELSE template_file[p]]

Written == IF pc \in {"copy", "update", "write", "aborted"} THEN ci - 1 ELSE Len(combinations)

C8_Files ==
    /\ DOMAIN files = {NameOf(k) : k \in 1..Written}
    /\ \A k \in 1..Written : files[NameOf(k)] = Expected(k)

C8_Step ==
    (pc = "update" /\ pc' # "aborted") =>
        LET path == split(hyperparameters[pi].param)
            before == yaml_dump(heap, NewConfig)
            after  == yaml_dump(heap', NewConfig)
        IN  /\ DOMAIN after = DOMAIN before
            /\ \A p \in DOMAIN before : after[p] = IF p = path THEN combinations[ci][pi] ELSE before[p]
            /\ DOMAIN heap' = DOMAIN heap
            /\ \A d \in DOMAIN heap : DOMAIN heap'[d] = DOMAIN heap[d]
            /\ Cardinality({dk \in {<<d, k>> : d \in DOMAIN heap, k \in {"model", "optim", "selfjoin", "seed", "channels", "use_self_join", "conv", "base_lr", "sched", "step", "sim_score_type"}} :
                              dk[2] \in DOMAIN heap[dk[1]] /\ heap'[dk[1]][dk[2]] # heap[dk[1]][dk[2]]}) <= 1

\* C8: the YAML file written for a combination holds that combination's value
\* at every swept key path and the template file's value at every other path,
\* whatever was generated before it (the template dict itself is changed
\* through the nested dicts the shallow copy shares); and a call of
\* update_nested_dict that returns changes only the leaf at its key path.
C8_NewConfigFromTemplate == []C8_Files /\ [][C8_Step]_vars

\* all files are written and the template dict no longer equals the file it
\* was loaded from
C8_Witness ==
    /\ pc = "get"
    /\ Len(combinations) = 4
    /\ yaml_dump(heap, Template) # template_file
    /\ template_file[<<"model", "channels">>] = "64"

MissingSweptKey == \E p \in SweptPaths : p \notin DOMAIN template_file
AllWritten == DOMAIN files = {NameOf(k) : k \in 1..Len(combinations)}

C9_Inv ==
    /\ (Dispatching \/ procs # <<>> \/ resource_pool # gpu_ids) => AllWritten
    /\ \A i \in Procs : procs[i].cfg \in DOMAIN files
    /\ MissingSweptKey =>
         /\ pc \in {"copy", "update", "aborted"}
         /\ files = <<>>
         /\ procs = <<>>
         /\ resource_pool = gpu_ids
    /\ pc = "aborted" => MissingSweptKey /\ exc = "KeyError"

C9_Step == (pc = "update" /\ pc' = "aborted") => heap' = heap

Max(S) == CHOOSE x \in S : \A y \in S : y <= x
Seen == {writer[e] : e \in 1..Len(writer)}

\* C10: best_val_metric is the maximum of 0 and the validation metrics seen so
\* far; state_dict is None exactly when no metric so far was above 0, and else
\* it is the snapshot of the earliest epoch that attained the maximum; the
\* parameters loaded after the loop are those of that epoch.
C10_BestCheckpoint ==
    /\ Len(writer) = epoch
    /\ best_val_metric = Max({0} \cup Seen)
    /\ (state_dict = <<>>) <=> (\A e \in 1..Len(writer) : writer[e] <= 0)
    /\ state_dict # <<>> =>
         /\ state_dict[1] \in 1..Len(writer)
         /\ writer[state_dict[1]] = best_val_metric
         /\ \A e \in 1..(state_dict[1] - 1) : writer[e] < best_val_metric
    /\ tpc = "loaded" => state_dict # <<>> /\ model_params = state_dict[1]
    /\ tpc = "crashed" => state_dict = <<>>

\* the maximum was attained twice and the first snapshot was loaded
C10_Witness ==
    /\ tpc = "loaded"
    /\ Len(writer) = 3
    /\ writer[1] < writer[2]
    /\ writer[2] = writer[3]
    /\ model_params = 2

====
